---- MODULE Spec2Model ----
(***************************************************************************)
(* McCache: a multicast-coherent in-process cache (src/mccache/__init__.py).*)
(* Each member process keeps a registry of LRU caches, an outbound queue    *)
(* drained by the multicaster thread, and a listener thread that applies    *)
(* the operations received from its peers.                                  *)
(***************************************************************************)
EXTENDS Integers, Sequences, FiniteSets, TLC

(* ------------------------------------------------------------------ *)
(* Bounds and input sets                                               *)
(* ------------------------------------------------------------------ *)

\* Number of calls the application threads make in one run.
MaxOps == 2

\* The application threads make a call when at most this many records and
\* datagrams are waiting in the queues and sockets of the group.
MaxLoad == 0

Members == {"A", "B"}
\* The members whose application reads and writes its cache.
Writers == {"A"}
Keys    == {"x", "y"}
Values  == {"42", "43", "blob"}
Names   == {"default"}
None    == "None"

\* The process-wide settings a run starts with (McCacheConfig).
Levels         == {3, 5, 7}
MaxSizeChoices == {1}
\* maxsize of a cache the application constructs itself, with its own getsizeof.
OwnMaxSizes    == {2}

\* Host addresses of the members; strings are sequences of characters.
AddrChoices ==
    { [A |-> <<"1", "0">>, B |-> <<"1", "2">>],
      [A |-> <<"1", "0">>, B |-> <<"1">>] }
PidOf == [A |-> <<"7">>, B |-> <<"8">>]

VARIABLES
    op_level,     \* _config.op_level
    max_size,     \* _config.max_size
    addr,         \* host address of each member
    debug,        \* logger.level == logging.DEBUG
    mcCacheDict,  \* _mcCacheDict of each member: name -> <<cache>> or <<>>
    held,         \* the cache object the application of each member holds
    mcQueue,      \* _mcQueue of each member
    mcMember,     \* _mcMember of each member: address -> timestamp
    mcPending,    \* _mcPending of each member
    net,          \* datagrams waiting in the listener socket of each member
    clock,        \* time.time_ns()
    ops,          \* cache operations performed so far
    exited,       \* members whose exit hook has run
    pc,           \* where the multicaster and the listener of each member are
    last          \* the step just taken (history)

vars == << op_level, max_size, addr, debug, mcCacheDict, held, mcQueue, mcMember,
           mcPending, net, clock, ops, exited, pc, last >>

(* ------------------------------------------------------------------ *)
(* Helpers on finite maps and sequences                                *)
(* ------------------------------------------------------------------ *)

EmptyMap == [k \in {} |-> None]

DropKey(f, k) == [j \in DOMAIN f \ {k} |-> f[j]]

PutKey(f, k, v) == [j \in DOMAIN f \cup {k} |-> IF j = k THEN v ELSE f[j]]

RECURSIVE RemoveFromSeq(_, _)
RemoveFromSeq(s, k) ==
    IF s = <<>> THEN <<>>
    ELSE IF Head(s) = k THEN RemoveFromSeq(Tail(s), k)
    ELSE <<Head(s)>> \o RemoveFromSeq(Tail(s), k)

RECURSIVE Repeat(_, _)
Repeat(x, n) == IF n = 0 THEN <<>> ELSE <<x>> \o Repeat(x, n - 1)

\* str.find: the lowest index at which sub occurs in s, -1 when it does not.
Find(s, sub) ==
    LET hits == {i \in 0..(Len(s) - Len(sub)) : SubSeq(s, i + 1, i + Len(sub)) = sub}
    IN  IF hits = {} THEN -1 ELSE CHOOSE i \in hits : \A j \in hits : i <= j

(* ------------------------------------------------------------------ *)
(* Enumerations and configuration                                      *)
(* ------------------------------------------------------------------ *)

\* McCacheLevel values.
PESSIMISTIC == 3
NEUTRAL     == 5
OPTIMISTIC  == 7

\* The receive buffer of the listener socket, and _config.mtu.
RecvBuf    == 4096
Mtu        == 1472

\* The magic byte of the fragment header _make_pending_value packs.
MAGIC_BYTE == 246

\* `_config.op_level == McCacheLevel.PESSIMISTIC`: an int compared with an
\* Enum member (not its .value) is never equal in Python.
IntEqEnumMember(level, memberValue) == FALSE

\* SRC_IP_ADD: "<ipv4>:<pid>".
SRC_IP_ADD(m) == addr[m] \o <<":">> \o PidOf[m]

(* ------------------------------------------------------------------ *)
(* Values: the size a user-supplied getsizeof reports, and pickled size *)
(* ------------------------------------------------------------------ *)

Weight(value) == IF value = "blob" THEN 3 ELSE IF value = "43" THEN 2 ELSE 1

ValBytes(value) == IF value = "blob" THEN 5000 ELSE IF value = None THEN 1 ELSE 5

\* pickle.dumps of a message tuple: its length and, for pickle.loads, its content.
PickleDumps(msg) == [len |-> 48 + ValBytes(msg.val), obj |-> msg]

\* The first byte of a datagram on the wire.  _send_fragment is handed the
\* pickle itself, with no fragment header before it, and a pickle starts with
\* the PROTO opcode 0x80.
WireMagic(pkl) == 128

\* The CRC the multicaster attaches: a85(md5(pickle.dumps(val))).
Crc(value) ==
    IF value = "42" THEN "md5:42" ELSE IF value = "43" THEN "md5:43" ELSE "md5:blob"

(* ------------------------------------------------------------------ *)
(* Cache and LRUCache                                                  *)
(* ------------------------------------------------------------------ *)

\* LRUCache(maxsize, getsizeof): Cache.__init__ and LRUCache.__init__.
NewLRUCache(maxsize, sized) ==
    [ name |-> None, maxsize |-> maxsize, sized |-> sized, data |-> EmptyMap,
      size |-> EmptyMap, order |-> <<>>, currsize |-> 0, kind |-> "LRU" ]

\* Cache.getsizeof, or the function given to the constructor.
GetSizeOf(c, value) == IF c.sized THEN Weight(value) ELSE 1

\* self.__size[key]: the dict of sizes, or _DefaultSize.
SizeOf(c, key) == IF c.sized THEN c.size[key] ELSE 1

\* Cache.__len__
CacheLen(c) == Cardinality(DOMAIN c.data)

\* An operation record on the outbound queue.
QRec(opc, tsm, nms, key, val) ==
    [opc |-> opc, tsm |-> tsm, nms |-> nms, key |-> key, val |-> val]

\* The result of a cache method: the cache after it, the records it put on
\* _mcQueue, the exception it raised ("" when none), the clock after it.
Res(c, out, raised, t) == [c |-> c, out |-> out, raised |-> raised, t |-> t]

\* LRUCache.__update
LRUUpdate(c, key) == [c EXCEPT !.order = RemoveFromSeq(@, key) \o <<key>>]

\* A faulty __delitem__ whose DEL record carries the value it removed.
CacheDelItemWithValue(c, key, multicast, t) ==
    IF key \notin DOMAIN c.data
    THEN Res(c, <<>>, "KeyError", t)
    ELSE Res([c EXCEPT !.data = DropKey(@, key),
                       !.size = IF c.sized THEN DropKey(@, key) ELSE @,
                       !.currsize = @ - SizeOf(c, key)],
             IF multicast THEN <<QRec("DEL", t, c.name, key, c.data[key])>> ELSE <<>>,
             "",
             IF multicast THEN t + 1 ELSE t)

\* Cache.__delitem__
CacheDelItem(c, key, multicast, t) ==
    IF key \notin DOMAIN c.data
    THEN Res(c, <<>>, "KeyError", t)
    ELSE Res([c EXCEPT !.data = DropKey(@, key),
                       !.size = IF c.sized THEN DropKey(@, key) ELSE @,
                       !.currsize = @ - SizeOf(c, key)],
             IF multicast THEN <<QRec("DEL", t, c.name, key, None)>> ELSE <<>>,
             "",
             IF multicast THEN t + 1 ELSE t)

\* LRUCache.__delitem__, after super().__delitem__ returned r.
LRUDelItemOrder(r, key) ==
    IF r.raised # "" THEN r ELSE [r EXCEPT !.c.order = RemoveFromSeq(@, key)]

\* LRUCache.__delitem__
LRUDelItem(c, key, multicast, t) ==
    LRUDelItemOrder(CacheDelItem(c, key, multicast, t), key)

\* LRUCache.__getitem__
LRUGetItem(c, key, t) ==
    IF key \notin DOMAIN c.data
    THEN Res(c, <<>>, "KeyError", t)
    ELSE Res(LRUUpdate(c, key), <<>>, "", t)

\* A faulty pop whose del does not propagate.
CachePopSilent(c, key, t) ==
    IF key \in DOMAIN c.data
    THEN LRUDelItem(LRUGetItem(c, key, t).c, key, FALSE, t)
    ELSE Res(c, <<>>, "KeyError", t)

\* Cache.pop(key) without a default: self[key], then del self[key].
CachePop(c, key, t) ==
    IF key \in DOMAIN c.data
    THEN LRUDelItem(LRUGetItem(c, key, t).c, key, TRUE, t)
    ELSE Res(c, <<>>, "KeyError", t)

\* A faulty popitem that takes the most recently used key.
LRUPopItemNewest(c, t) ==
    IF c.order = <<>>
    THEN Res(c, <<>>, "KeyError", t)
    ELSE CachePop(c, c.order[Len(c.order)], t)

\* LRUCache.popitem
LRUPopItem(c, t) ==
    IF c.order = <<>>
    THEN Res(c, <<>>, "KeyError", t)
    ELSE CachePop(c, Head(c.order), t)

\* The eviction loop of Cache.__setitem__:
\*   while self.__currsize + size > maxsize: self.popitem()
\* EvictNext continues the loop after a popitem() that returned r.
RECURSIVE EvictLoop(_, _, _, _)
RECURSIVE EvictNext(_, _, _)
\* A faulty __setitem__ that makes no room before it stores.
SkipEviction(c, size, out, t) == Res(c, out, "", t)

EvictLoop(c, size, out, t) ==
    IF c.currsize + size > c.maxsize
    THEN EvictNext(LRUPopItem(c, t), size, out)
    ELSE Res(c, out, "", t)

EvictNext(r, size, out) ==
    IF r.raised # "" THEN Res(r.c, out, r.raised, r.t)
    ELSE EvictLoop(r.c, size, out \o r.out, r.t)

\* A faulty __setitem__ that enqueues UPD whatever the posture is.
SetRecordAlwaysUpd(c, key, value, t) == QRec("UPD", t, c.name, key, value)

\* The record a propagating set enqueues, by posture.
SetRecord(c, key, value, t) ==
    IF op_level = OPTIMISTIC   THEN QRec("PUT", t, c.name, key, value)
    ELSE IF op_level = NEUTRAL THEN QRec("UPD", t, c.name, key, value)
    ELSE QRec("DEL", t, c.name, key, None)

\* A faulty store that adds the whole size of the value to currsize, whether
\* or not the key is already held.
CacheSetStoreNoDiff(c, out, t, key, value, size, multicast) ==
    LET c2 == [c EXCEPT !.data = PutKey(@, key, value),
                        !.size = IF c.sized THEN PutKey(@, key, size) ELSE @,
                        !.currsize = @ + size]
    IN  IF multicast
        THEN Res(c2, out \o <<SetRecord(c, key, value, t)>>, "", t + 1)
        ELSE Res(c2, out, "", t)

\* Cache.__setitem__, `if key in self.__data: diffsize = ... else: ...`
DiffSize(c, key, size) == IF key \in DOMAIN c.data THEN size - SizeOf(c, key) ELSE size

\* Cache.__setitem__ from `self.__data[key] = value` on, with the diffsize
\* the method computed before.
CacheSetWrite(c, out, t, key, value, size, diffsize, multicast) ==
    LET c2 == [c EXCEPT !.data = PutKey(@, key, value),
                        !.size = IF c.sized THEN PutKey(@, key, size) ELSE @,
                        !.currsize = @ + diffsize]
    IN  IF multicast
        THEN Res(c2, out \o <<SetRecord(c, key, value, t)>>, "", t + 1)
        ELSE Res(c2, out, "", t)

\* Cache.__setitem__ from `if key in self.__data` on: c is the cache, out the
\* records enqueued and t the clock when the eviction loop has ended.
CacheSetStore(c, out, t, key, value, size, multicast) ==
    CacheSetWrite(c, out, t, key, value, size, DiffSize(c, key, size), multicast)

\* Cache.__setitem__ after the eviction loop returned ev.
CacheSetAfterEvict(ev, key, value, size, multicast) ==
    IF ev.raised # "" THEN ev
    ELSE CacheSetStore(ev.c, ev.out, ev.t, key, value, size, multicast)

\* A faulty __setitem__ without the `size > maxsize` test.
CacheSetUnchecked(c, key, value, size, multicast, t) ==
    IF key \notin DOMAIN c.data \/ SizeOf(c, key) < size
    THEN CacheSetAfterEvict(EvictLoop(c, size, <<>>, t), key, value, size, multicast)
    ELSE CacheSetStore(c, <<>>, t, key, value, size, multicast)

\* Cache.__setitem__ once size = getsizeof(value) is known.
CacheSetSized(c, key, value, size, multicast, t) ==
    IF size > c.maxsize THEN Res(c, <<>>, "ValueError", t)
    ELSE IF key \notin DOMAIN c.data \/ SizeOf(c, key) < size
    THEN CacheSetAfterEvict(EvictLoop(c, size, <<>>, t), key, value, size, multicast)
    ELSE CacheSetStore(c, <<>>, t, key, value, size, multicast)

\* Cache.__setitem__
CacheSetItem(c, key, value, multicast, t) ==
    CacheSetSized(c, key, value, GetSizeOf(c, value), multicast, t)

\* LRUCache.__setitem__, after super().__setitem__ returned r.
LRUSetItemOrder(r, key) ==
    IF r.raised # "" THEN r ELSE [r EXCEPT !.c = LRUUpdate(@, key)]

\* LRUCache.__setitem__
LRUSetItem(c, key, value, multicast, t) ==
    LRUSetItemOrder(CacheSetItem(c, key, value, multicast, t), key)

\* Cache.setdefault
CacheSetDefault(c, key, default, t) ==
    IF key \in DOMAIN c.data THEN LRUGetItem(c, key, t)
    ELSE LRUSetItem(c, key, default, TRUE, t)

(* ------------------------------------------------------------------ *)
(* The registry                                                        *)
(* ------------------------------------------------------------------ *)

\* bool(cache): None is falsy, and so is a cache without entries (Cache.__len__).
Truthy(oc) == oc # <<>> /\ CacheLen(oc[1]) > 0

\* The cache get_cache makes when it has none: LRUCache, or TLRUCache under
\* the pessimistic posture; it is given the name when it has none.
DefaultCache(nm) ==
    [ (IF IntEqEnumMember(op_level, PESSIMISTIC)
       THEN [NewLRUCache(max_size, FALSE) EXCEPT !.kind = "TLRU"]
       ELSE NewLRUCache(max_size, FALSE)) EXCEPT !.name = nm ]

\* get_cache from `if not cache` on: c1 is `cache` after the registry lookup.
GetCacheNamed(dict, nm, c1) ==
    IF ~Truthy(c1)
    THEN [dict |-> [dict EXCEPT ![nm] = <<DefaultCache(nm)>>], nm |-> nm,
          created |-> TRUE, registered |-> TRUE]
    ELSE [dict |-> dict, nm |-> nm, created |-> FALSE,
          registered |-> dict[nm] # <<>>]

\* get_cache(name, cache) on the registry `dict`; `cache` is <<>> for None.
\* registered: the cache returned is the one in the registry under nm;
\* created: this call made a new cache (and put it in the registry).
GetCacheLookup(dict, nm, cache) ==
    GetCacheNamed(dict, nm, IF dict[nm] # <<>> THEN dict[nm] ELSE cache)

get_cache(dict, name, cache) ==
    GetCacheLookup(dict, IF name = None THEN "default" ELSE name, cache)

\* The application's handle: the registered cache of a name, or an object of
\* its own that the registry does not (or no longer) hold.
RegHandle(n) == [kind |-> "reg", nm |-> n, c |-> <<>>]
OwnHandle(c) == [kind |-> "own", nm |-> None, c |-> <<c>>]

\* The cache object the application of m operates on.
HeldCache(m) ==
    IF held[m].kind = "reg" THEN mcCacheDict[m][held[m].nm][1] ELSE held[m].c[1]

(* ------------------------------------------------------------------ *)
(* Outbound: _make_pending_value, _send_fragment                       *)
(* ------------------------------------------------------------------ *)

\* _make_pending_value: fragmnts = len(bdata) / frg_size is a float, so
\* pack('@BBBB', MAGIC_BYTE, 1, i, fragmnts) raises struct.error for the first
\* chunk of any non-empty bdata, and range(0, fragmnts) raises TypeError for
\* the first member otherwise.
MakePendingValue(bdata, frame_size, members) ==
    IF bdata.len > 0
    THEN [raised |-> "struct.error", value |-> <<>>, members |-> EmptyMap]
    ELSE IF DOMAIN members # {}
    THEN [raised |-> "TypeError", value |-> <<>>, members |-> EmptyMap]
    ELSE [raised |-> "", value |-> <<>>, members |-> EmptyMap]

\* A faulty _send_fragment that stops after its first two sendto calls.
CopiesFirstTwo == 1 + 1

\* Number of sendto calls of _send_fragment.
Copies ==
    2 + (IF NEUTRAL >= op_level THEN 1 ELSE 0)
      + (IF PESSIMISTIC >= op_level THEN 1 ELSE 0)

\* _send_fragment: the datagrams one call puts on the wire.
SendFragment(from, pkl) == Repeat([frm |-> from, pkl |-> pkl], Copies)

(* ------------------------------------------------------------------ *)
(* Inbound: _decode_message                                            *)
(* ------------------------------------------------------------------ *)

\* A faulty ACK branch that never removes an entry.
AckPendingKeepEntry(pending, k, frm) ==
    IF k \notin DOMAIN pending THEN pending
    ELSE [pending EXCEPT ![k].members =
            IF frm \in DOMAIN @ THEN DropKey(@, frm) ELSE @]

\* The ACK branch of _decode_message on the pending table.
AckPending(pending, k, frm) ==
    IF k \notin DOMAIN pending THEN pending
    ELSE LET mem == IF frm \in DOMAIN pending[k].members
                    THEN DropKey(pending[k].members, frm)
                    ELSE pending[k].members
         IN  IF DOMAIN mem = {} THEN DropKey(pending, k)
             ELSE [pending EXCEPT ![k].members = mem]

\* What _decode_message leaves behind at a member: dict, hold, member,
\* pending: the tables after it; out: the records the cache method put on
\* _mcQueue; ack: the records _decode_message itself put there; raised: the
\* exception that ended it; t: the clock after it.
Decoded(dict, hold, out, ack, member, pending, raised, t) ==
    [dict |-> dict, hold |-> hold, out |-> out, ack |-> ack, member |-> member,
     pending |-> pending, raised |-> raised, t |-> t]

\* A faulty _decode_message that acknowledges nothing.
AckRecNone(msg) == <<>>

\* The ACK record _decode_message enqueues for a DEL, PUT or UPD.
AckRec(msg) == <<QRec("ACK", msg.tsm, msg.nms, msg.key, None)>>

\* case DEL, after mcc.__delitem__(key, False) returned r.
DecodeDel(base, nm, msg, r) ==
    [base EXCEPT !.dict[nm] = <<r.c>>, !.out = r.out, !.ack = AckRec(msg), !.t = r.t]

\* case PUT | UPD, after mcc.__setitem__(key, val, False) returned r.
DecodeSet(base, nm, msg, r) ==
    IF r.raised # "" THEN [base EXCEPT !.raised = r.raised]
    ELSE [base EXCEPT !.dict[nm] = <<r.c>>, !.out = r.out, !.ack = AckRec(msg),
                      !.t = r.t]

\* A faulty BYE branch that leaves the membership table alone.
DecodeByeKeep(member, frm) == member

\* case BYE of _decode_message on the membership table.
DecodeBye(member, frm) == IF frm \in DOMAIN member THEN DropKey(member, frm) ELSE member

\* The match statement of _decode_message on the cache mcc = get_cache(nms).
DecodeMatch(base, nm, mcc, msg, frm) ==
    CASE msg.opc = "ACK" ->
           [base EXCEPT !.pending = AckPending(@, <<msg.nms, msg.key, msg.tsm>>, frm)]
      [] msg.opc = "BYE" ->
           [base EXCEPT !.member = DecodeBye(@, frm)]
      [] msg.opc = "DEL" ->
           IF msg.key \in DOMAIN mcc.data
           THEN DecodeDel(base, nm, msg, LRUDelItem(mcc, msg.key, FALSE, base.t))
           ELSE [base EXCEPT !.ack = AckRec(msg)]
      [] msg.opc \in {"PUT", "UPD"} ->
           DecodeSet(base, nm, msg, LRUSetItem(mcc, msg.key, msg.val, FALSE, base.t))
      [] OTHER -> base

\* _decode_message after mcc = get_cache(nms) returned g.  A cache made in
\* place of the registered one leaves the application holding the object that
\* was registered before.
DecodeWith(m, msg, frm, member, g) ==
    DecodeMatch(
        Decoded(g.dict,
                IF g.created /\ held[m].kind = "reg" /\ held[m].nm = g.nm
                THEN OwnHandle(mcCacheDict[m][g.nm][1]) ELSE held[m],
                <<>>, <<>>, member, mcPending[m], "", clock),
        g.nm, g.dict[g.nm][1], msg, frm)

\* _decode_message(msg, sender) at member m, whose membership table is
\* `member` when it is called.
DecodeMessage(m, msg, frm, member) ==
    DecodeWith(m, msg, frm, member, get_cache(mcCacheDict[m], msg.nms, <<>>))

(* ------------------------------------------------------------------ *)
(* State                                                               *)
(* ------------------------------------------------------------------ *)

\* Both workers of a member are at the top of their loops and its application
\* is in no cache method.  mc holds the record the multicaster took, from its
\* test of _mcPending to the end of the turn; ls the datagram the listener
\* took, from its test of _mcMember to the return of _decode_message; ap the
\* locals of the __setitem__ the application is in, from the assignment of
\* diffsize to the return.
Idle == [mc |-> <<>>, ls |-> <<>>, ap |-> <<>>]

Step(op, m, opc, key, val, prop, raised, out, frm, disp) ==
    [op |-> op, m |-> m, opc |-> opc, key |-> key, val |-> val, prop |-> prop,
     raised |-> raised, out |-> out, frm |-> frm, disp |-> disp]

\* The state when every member has imported the module and its application
\* has called get_cache() once.
InitWith(levels, sizes) ==
    /\ op_level \in levels
    /\ max_size \in sizes
    /\ addr \in AddrChoices
    /\ debug \in BOOLEAN
    /\ mcCacheDict = [m \in Members |-> get_cache([n \in Names |-> <<>>], None, <<>>).dict]
    /\ held = [m \in Members |-> RegHandle("default")]
    /\ mcQueue = [m \in Members |-> <<>>]
    /\ mcMember = [m \in Members |-> EmptyMap]
    /\ mcPending = [m \in Members |-> EmptyMap]
    /\ net = [m \in Members |-> <<>>]
    /\ clock = 1
    /\ ops = 0
    /\ exited = [m \in Members |-> FALSE]
    /\ pc = [m \in Members |-> Idle]
    /\ last = Step("init", None, None, None, None, FALSE, "", <<>>, <<>>, FALSE)

Init == InitWith(Levels, MaxSizeChoices)

config == << op_level, max_size, addr, debug >>

\* Records and datagrams waiting in the queues and sockets of the members of S.
RECURSIVE LoadOf(_)
LoadOf(S) ==
    IF S = {} THEN 0
    ELSE LET m == CHOOSE x \in S : TRUE
         IN  Len(mcQueue[m]) + Len(net[m]) + LoadOf(S \ {m})

Calm == LoadOf(Members) <= MaxLoad

\* The application of m may make its next call.
Ready(m) == ~exited[m] /\ ops < MaxOps /\ Calm

(* ------------------------------------------------------------------ *)
(* The application threads                                             *)
(* ------------------------------------------------------------------ *)

\* The application of m calls get_cache(cache=supplied) and keeps what it returns.
GetCacheCall(m, supplied, g) ==
    /\ mcCacheDict' = [mcCacheDict EXCEPT ![m] = g.dict]
    /\ held' = [held EXCEPT ![m] = IF g.registered THEN RegHandle(g.nm) ELSE @]
    /\ ops' = ops + 1
    /\ last' = Step("get_cache", m, None, None, None, supplied, "", <<>>, <<>>, FALSE)
    /\ UNCHANGED << config, pc, mcQueue, mcMember, mcPending, net, clock, exited >>

\* get_cache(), passing no cache or the object the application made itself.
GetCache(m, supply) ==
    /\ Ready(m)
    /\ supply => held[m].kind = "own"
    /\ GetCacheCall(m, supply,
                    get_cache(mcCacheDict[m], None, IF supply THEN held[m].c ELSE <<>>))

\* The application of m constructs LRUCache(maxsize, getsizeof) itself.
NewCache(m, maxsize) ==
    /\ Ready(m)
    /\ held' = [held EXCEPT ![m] = OwnHandle(NewLRUCache(maxsize, TRUE))]
    /\ ops' = ops + 1
    /\ last' = Step("new", m, None, None, None, FALSE, "", <<>>, <<>>, FALSE)
    /\ UNCHANGED << config, pc, mcCacheDict, mcQueue, mcMember, mcPending, net,
                    clock, exited >>

\* The effect of a cache method, called by the application of m on the cache
\* it holds, on the state.
Commit(m, r, op, key, val, prop) ==
    /\ IF held[m].kind = "reg"
       THEN /\ mcCacheDict' = [mcCacheDict EXCEPT ![m][held[m].nm] = <<r.c>>]
            /\ UNCHANGED held
       ELSE /\ held' = [held EXCEPT ![m].c = <<r.c>>]
            /\ UNCHANGED mcCacheDict
    /\ mcQueue' = [mcQueue EXCEPT ![m] = @ \o r.out]
    /\ clock' = r.t
    /\ ops' = ops + 1
    /\ last' = Step(op, m, None, key, val, prop, r.raised, r.out, <<>>, FALSE)
    /\ UNCHANGED << config, pc, mcMember, mcPending, net, exited >>

CanOperate(m) == m \in Writers /\ Ready(m)

\* cache.__setitem__(key, value, multicast)
LocalSet(m, key, value, multicast) ==
    /\ CanOperate(m)
    /\ Commit(m, LRUSetItem(HeldCache(m), key, value, multicast, clock),
              "set", key, value, multicast)

\* cache.__delitem__(key, multicast)
LocalDel(m, key, multicast) ==
    /\ CanOperate(m)
    /\ Commit(m, LRUDelItem(HeldCache(m), key, multicast, clock),
              "del", key, None, multicast)

\* cache.pop(key)
LocalPop(m, key) ==
    /\ CanOperate(m)
    /\ Commit(m, CachePop(HeldCache(m), key, clock), "pop", key, None, TRUE)

\* cache.setdefault(key, default)
LocalSetDefault(m, key, default) ==
    /\ CanOperate(m)
    /\ Commit(m, CacheSetDefault(HeldCache(m), key, default, clock),
              "setdefault", key, default, TRUE)

\* cache.popitem()
LocalPopItem(m) ==
    /\ CanOperate(m)
    /\ Commit(m, LRUPopItem(HeldCache(m), clock), "popitem", None, None, TRUE)

\* cache[key]
LocalGet(m, key) ==
    /\ CanOperate(m)
    /\ Commit(m, LRUGetItem(HeldCache(m), key, clock), "get", key, None, FALSE)

\* _goodbye, the exit hook.
Goodbye(m) ==
    /\ Ready(m)
    /\ exited' = [exited EXCEPT ![m] = TRUE]
    /\ mcQueue' = [mcQueue EXCEPT ![m] = Append(@, QRec("BYE", clock, None, None, None))]
    /\ clock' = clock + 1
    /\ ops' = ops + 1
    /\ last' = Step("bye", m, "BYE", None, None, TRUE, "", <<>>, <<>>, FALSE)
    /\ UNCHANGED << config, pc, mcCacheDict, held, mcMember, mcPending, net >>

(* ------------------------------------------------------------------ *)
(* The worker threads                                                  *)
(* ------------------------------------------------------------------ *)

\* A faulty queue that hands out the record put on it last.
QueueGetLifo(q) == [item |-> q[Len(q)], rest |-> SubSeq(q, 1, Len(q) - 1)]

\* _mcQueue.get() on the non-empty queue.Queue q: the record it returns and
\* the queue it leaves.
QueueGet(q) == [item |-> Head(q), rest |-> Tail(q)]

\* The wire message the multicaster makes of a queue record.
WireMsg(rec) ==
    [opc |-> rec.opc, tsm |-> rec.tsm, nms |-> rec.nms, key |-> rec.key,
     crc |-> IF op_level >= NEUTRAL /\ rec.val # None THEN Crc(rec.val) ELSE None,
     val |-> IF IntEqEnumMember(op_level, PESSIMISTIC) THEN None ELSE rec.val]

\* Whether the multicaster makes a pending entry for the record.
Tracks(m, rec) ==
    /\ op_level <= PESSIMISTIC
    /\ rec.opc # "ACK"
    /\ <<rec.nms, rec.key, rec.tsm>> \notin DOMAIN mcPending[m]

\* The loop body of _multicaster from the pending entry on: pv is what
\* _make_pending_value returned or raised, failed whether the turn ends there.
MulticasterSend(m, rec, pkl, pv, failed) ==
    /\ mcQueue' = [mcQueue EXCEPT ![m] = QueueGet(@).rest]
    /\ mcPending' = IF Tracks(m, rec) /\ ~failed
                    THEN [mcPending EXCEPT ![m] =
                            PutKey(@, <<rec.nms, rec.key, rec.tsm>>,
                                   [value |-> pv.value, members |-> pv.members])]
                    ELSE mcPending
    /\ net' = IF failed THEN net
              ELSE [r \in Members |-> net[r] \o SendFragment(addr[m], pkl)]
    /\ last' = Step("send", m, rec.opc, rec.key, rec.val, FALSE,
                    IF failed THEN pv.raised ELSE "", <<>>, <<>>, ~failed)
    /\ UNCHANGED << config, pc, mcCacheDict, held, mcMember, clock, ops, exited >>

MulticasterTrack(m, rec, pkl, pv) ==
    MulticasterSend(m, rec, pkl, pv, Tracks(m, rec) /\ pv.raised # "")

MulticasterPickled(m, rec, pkl) ==
    MulticasterTrack(m, rec, pkl, MakePendingValue(pkl, Mtu, mcMember[m]))

\* One turn of the loop of _multicaster.
Multicaster(m) ==
    /\ mcQueue[m] # <<>>
    /\ MulticasterPickled(m, QueueGet(mcQueue[m]).item,
                          PickleDumps(WireMsg(QueueGet(mcQueue[m]).item)))

\* A faulty listener that enters the sender in the membership table before it
\* unpickles the datagram.
ListenerDropJoin(m, msg, frm, raised) ==
    /\ last' = Step("recv", m, msg.opc, msg.key, msg.val, FALSE, raised, <<>>, frm, FALSE)
    /\ mcMember' = [mcMember EXCEPT ![m] = PutKey(@, frm, msg.tsm)]
    /\ UNCHANGED << mcCacheDict, held, mcQueue, mcPending, clock >>

\* The listener drops the datagram: its own, or one pickle.loads raised on.
ListenerDrop(m, msg, frm, raised) ==
    /\ last' = Step("recv", m, msg.opc, msg.key, msg.val, FALSE, raised, <<>>, frm, FALSE)
    /\ UNCHANGED << mcCacheDict, held, mcQueue, mcMember, mcPending, clock >>

\* The listener after _decode_message returned (or raised) d.
ListenerDispatch(m, msg, frm, d) ==
    /\ mcCacheDict' = [mcCacheDict EXCEPT ![m] = d.dict]
    /\ held' = [held EXCEPT ![m] = d.hold]
    /\ mcQueue' = [mcQueue EXCEPT ![m] = @ \o d.out \o d.ack]
    /\ mcMember' = [mcMember EXCEPT ![m] = d.member]
    /\ mcPending' = [mcPending EXCEPT ![m] = d.pending]
    /\ clock' = d.t
    /\ last' = Step("recv", m, msg.opc, msg.key, msg.val, FALSE, d.raised, d.out, frm, TRUE)

\* The tuple the listener hands to _decode_message: under debug logging it is
\* the one made for the log line, which carries None in place of the value.
Logged(msg) == IF debug THEN [msg EXCEPT !.val = None] ELSE msg

\* The loop body of _listener on the datagram recvfrom(4096) returned.
ListenerOn(m, frm, pkl) ==
    IF Find(SRC_IP_ADD(m), frm) # -1
    THEN ListenerDrop(m, pkl.obj, frm, "")
    ELSE IF pkl.len > RecvBuf
    THEN ListenerDrop(m, pkl.obj, frm, "UnpicklingError")
    ELSE ListenerDispatch(m, pkl.obj, frm,
            DecodeMessage(m, Logged(pkl.obj), frm,
                IF frm \notin DOMAIN mcMember[m]
                THEN PutKey(mcMember[m], frm, pkl.obj.tsm) ELSE mcMember[m]))

\* One turn of the loop of _listener.
Listener(m) ==
    /\ net[m] # <<>>
    /\ net' = [net EXCEPT ![m] = Tail(@)]
    /\ ListenerOn(m, Head(net[m]).frm, Head(net[m]).pkl)
    /\ UNCHANGED << config, pc, ops, exited >>

Next ==
    \/ \E m \in Members, supply \in BOOLEAN : GetCache(m, supply)
    \/ \E m \in Members, maxsize \in OwnMaxSizes : NewCache(m, maxsize)
    \/ \E m \in Members, key \in Keys, value \in Values, multicast \in BOOLEAN :
           LocalSet(m, key, value, multicast)
    \/ \E m \in Members, key \in Keys, multicast \in BOOLEAN : LocalDel(m, key, multicast)
    \/ \E m \in Members, key \in Keys : LocalPop(m, key)
    \/ \E m \in Members, key \in Keys, default \in Values : LocalSetDefault(m, key, default)
    \/ \E m \in Members : LocalPopItem(m)
    \/ \E m \in Members, key \in Keys : LocalGet(m, key)
    \/ \E m \in Members : Goodbye(m)
    \/ \E m \in Members : Multicaster(m)
    \/ \E m \in Members : Listener(m)

Spec == Init /\ [][Next]_vars

(* ------------------------------------------------------------------ *)
(* Eviction under capacity: member A sets four keys, one after another  *)
(* ------------------------------------------------------------------ *)

EvictionKeys == <<"a", "b", "c", "d">>

\* max_size is 3 and the posture is one whose records carry the value.
EvictionInit == InitWith({NEUTRAL, OPTIMISTIC}, {3})

\* default[k] = "42" at A, for the next key k of EvictionKeys.
SetNextKey ==
    /\ ops < Len(EvictionKeys)
    /\ ~exited["A"]
    /\ Calm
    /\ Commit("A", LRUSetItem(HeldCache("A"), EvictionKeys[ops + 1], "42", TRUE, clock),
              "set", EvictionKeys[ops + 1], "42", TRUE)

EvictionNext ==
    \/ SetNextKey
    \/ \E m \in Members : Multicaster(m)
    \/ \E m \in Members : Listener(m)

EvictionSpec == EvictionInit /\ [][EvictionNext]_vars

(* ------------------------------------------------------------------ *)
(* Pending acknowledgements: the listener and the housekeeper of A on a *)
(* pending table of the shape _make_pending_value is written to build.  *)
(* (No run of the module fills _mcPending: see MakePendingValue.)       *)
(* ------------------------------------------------------------------ *)

\* Number of ACK datagrams waiting in the socket of A at the start.
MaxAcks == 2

PendingKeys == {<<"default", "x", 1>>, <<"default", "y", 2>>}

\* The peers of A whose datagrams its listener admits.
PeerAddrs == {p \in {addr["B"], <<"3">>} : Find(SRC_IP_ADD("A"), p) = -1}

\* _mcPending[(nms, key, tsm)] for the members S.
PendingEntry(S) == [value |-> <<>>, members |-> [p \in S |-> [tries |-> {1, 2}]]]

PendingTables ==
    UNION {[K -> {PendingEntry(S) : S \in SUBSET PeerAddrs}] : K \in SUBSET PendingKeys}

\* The datagram that carries the ACK of peer p for the pending key k.
AckDatagram(p, k) ==
    [frm |-> p, pkl |-> PickleDumps(WireMsg(QRec("ACK", k[3], k[1], k[2], None)))]

AckBursts ==
    UNION {[1..n -> {AckDatagram(p, k) : p \in PeerAddrs, k \in PendingKeys}] :
             n \in 0..MaxAcks}

PendingInit ==
    /\ op_level \in Levels
    /\ max_size \in MaxSizeChoices
    /\ addr \in AddrChoices
    /\ debug \in BOOLEAN
    /\ mcCacheDict = [m \in Members |-> get_cache([n \in Names |-> <<>>], None, <<>>).dict]
    /\ held = [m \in Members |-> RegHandle("default")]
    /\ mcQueue = [m \in Members |-> <<>>]
    /\ mcMember = [m \in Members |->
                      IF m = "A" THEN [p \in PeerAddrs |-> 0] ELSE EmptyMap]
    /\ \E t \in PendingTables :
          mcPending = [m \in Members |-> IF m = "A" THEN t ELSE EmptyMap]
    /\ \E b \in AckBursts :
          net = [m \in Members |-> IF m = "A" THEN b ELSE <<>>]
    /\ clock = 3
    /\ ops = 0
    /\ exited = [m \in Members |-> FALSE]
    /\ pc = [m \in Members |-> Idle]
    /\ last = Step("init", None, None, None, None, FALSE, "", <<>>, <<>>, FALSE)

\* _housekeeper: it logs that it is ready and returns; the loop over
\* _mcPending is commented out, so a tick of the cadence changes nothing.
Housekeeper(m) == ~exited[m] /\ UNCHANGED vars

PendingNext ==
    \/ \E m \in Members : Listener(m)
    \/ \E m \in Members : Housekeeper(m)

\* The listener and the housekeeper run as long as the process does.
PendingSpec ==
    /\ PendingInit
    /\ [][PendingNext]_vars
    /\ \A m \in Members : WF_vars(Listener(m)) /\ WF_vars(Housekeeper(m))

(* ------------------------------------------------------------------ *)
(* Concurrent writers: A and then B set the same key, at any moment     *)
(* ------------------------------------------------------------------ *)

RaceWriters == <<"A", "B">>
RaceValues  == <<"42", "43">>

\* A posture whose records carry the value.
RaceInit == InitWith({NEUTRAL, OPTIMISTIC}, MaxSizeChoices)

\* default["x"] = v at the next writer, whatever is in flight.
RaceSet ==
    /\ ops < Len(RaceWriters)
    /\ ~exited[RaceWriters[ops + 1]]
    /\ Commit(RaceWriters[ops + 1],
              LRUSetItem(HeldCache(RaceWriters[ops + 1]), "x", RaceValues[ops + 1],
                         TRUE, clock),
              "set", "x", RaceValues[ops + 1], TRUE)

RaceNext ==
    \/ RaceSet
    \/ \E m \in Members : Multicaster(m)
    \/ \E m \in Members : Listener(m)

RaceSpec == RaceInit /\ [][RaceNext]_vars

(* ------------------------------------------------------------------ *)
(* Properties                                                          *)
(* ------------------------------------------------------------------ *)

\* The cache registered under "default" at m.
RegCache(m) == mcCacheDict[m]["default"][1]

\* The caches of m: the registered ones and the one its application holds.
CachesOf(m) ==
    {mcCacheDict[m][n][1] : n \in {n \in Names : mcCacheDict[m][n] # <<>>}}
        \cup (IF held[m].kind = "own" THEN {held[m].c[1]} ELSE {})

\* cache[key] == value
Has(c, key, value) == key \in DOMAIN c.data /\ c.data[key] = value

\* The step from the current state to the next is a turn of the listener of m.
Received(m) == net[m] # <<>> /\ net'[m] = Tail(net[m])

\* C1: in every reachable state every cache, registered or held by an
\* application, has currsize <= maxsize, whatever local and inbound-applied
\* operations came before.
SizeWithinMax == \A m \in Members : \A c \in CachesOf(m) : c.currsize <= c.maxsize

\* C1, the case: a set on a full cache has evicted and the cache is full again.
EvictedToFit ==
    /\ last.op = "set"
    /\ last.raised = ""
    /\ Len(last.out) > (IF last.prop THEN 1 ELSE 0)
    /\ HeldCache(last.m).currsize = HeldCache(last.m).maxsize

\* C2: a set or delete called with multicast=False, by the application or by
\* the listener applying a received PUT, UPD or DEL, puts no record on the
\* outbound queue (the ACK the listener itself enqueues is not counted).
SilentUnlessPropagating ==
    ((last.op \in {"set", "del"} /\ ~last.prop) \/ last.op = "recv") => last.out = <<>>

\* C3: under the neutral posture, a member that has taken a copy of an UPD of
\* another member from its socket holds the key with the value that was set.
MirrorOnReceipt ==
    (op_level = NEUTRAL /\ last.op = "recv" /\ last.opc = "UPD"
        /\ last.frm # addr[last.m])
    => Has(RegCache(last.m), last.key, last.val)

\* C4: under the pessimistic posture, every DEL record the multicaster takes
\* from the queue is transmitted to the group.
InvalidateTransmitted ==
    (op_level = PESSIMISTIC /\ last.op = "send" /\ last.opc = "DEL") => last.disp

\* C5: a set with multicast=True that succeeds has stored the value and ends
\* the records it enqueued (after the DELs of the evictions) with the record of
\* the posture: PUT with the value (optimistic), UPD with the value (neutral),
\* DEL without a value (pessimistic); a set that fails enqueues nothing.
SetRecordByPosture ==
    (last.op = "set" /\ last.prop) =>
        IF last.raised = ""
        THEN /\ last.out # <<>>
             /\ last.out[Len(last.out)].key = last.key
             /\ op_level = OPTIMISTIC =>
                    /\ last.out[Len(last.out)].opc = "PUT"
                    /\ last.out[Len(last.out)].val = last.val
             /\ op_level = NEUTRAL =>
                    /\ last.out[Len(last.out)].opc = "UPD"
                    /\ last.out[Len(last.out)].val = last.val
             /\ op_level = PESSIMISTIC =>
                    /\ last.out[Len(last.out)].opc = "DEL"
                    /\ last.out[Len(last.out)].val = None
             /\ \A i \in 1..(Len(last.out) - 1) : last.out[i].opc = "DEL"
             /\ Has(HeldCache(last.m), last.key, last.val)
        ELSE last.out = <<>>

\* C5, the case: a propagating set that evicted before it enqueued its record.
SetAfterEviction ==
    last.op = "set" /\ last.prop /\ last.raised = "" /\ Len(last.out) = 2

\* C6: a set (or a setdefault of an absent key) of a value whose size is
\* greater than maxsize raises ValueError and leaves the caches, the outbound
\* queues and the sockets as they were.
OversizeSetRejected ==
    [][\A m \in Members :
          ( /\ ops' = ops + 1
            /\ last'.m = m
            /\ \/ last'.op = "set"
               \/ last'.op = "setdefault" /\ last'.key \notin DOMAIN HeldCache(m).data
            /\ GetSizeOf(HeldCache(m), last'.val) > HeldCache(m).maxsize )
          => ( /\ last'.raised = "ValueError"
               /\ UNCHANGED << mcCacheDict, held, mcQueue, net >> )]_vars

\* C6, the case: a set has just been refused for the size of its value.
OversizeSetTried == last.op = "set" /\ last.raised = "ValueError"

\* C7: the listener leaves a message aside exactly when its sender is the
\* member's own address; a message of any other sender is dispatched.
IgnoredExactlyOwn ==
    (last.op = "recv" /\ last.raised # "UnpicklingError")
    => (last.disp <=> last.frm # addr[last.m])

ByeRemovesPeer ==
    [][\A m \in Members :
          /\ (exited'[m] /\ ~exited[m]) =>
                /\ Len(mcQueue'[m]) = Len(mcQueue[m]) + 1
                /\ mcQueue'[m][Len(mcQueue'[m])].opc = "BYE"
          /\ (Received(m) /\ Head(net[m]).pkl.obj.opc = "BYE"
                /\ Head(net[m]).frm # addr[m])
             => Head(net[m]).frm \notin DOMAIN mcMember'[m]
          /\ \A p \in DOMAIN mcMember'[m] \ DOMAIN mcMember[m] :
                Received(m) /\ Head(net[m]).frm = p]_vars

\* C9, the case: the listener has dispatched the BYE of a peer and the peer
\* is gone from the membership table.
PeerGone ==
    /\ last.op = "recv"
    /\ last.opc = "BYE"
    /\ last.disp
    /\ last.frm \notin DOMAIN mcMember[last.m]

\* C10: when the listener has taken a message other than BYE of another
\* member from its socket, that member is in the membership table.
SenderJoinsMembership ==
    (last.op = "recv" /\ last.opc # "BYE" /\ last.raised # "UnpicklingError"
        /\ last.frm # addr[last.m])
    => last.frm \in DOMAIN mcMember[last.m]

\* The key of the pending table a message belongs to.
PendingKeyOf(msg) == <<msg.nms, msg.key, msg.tsm>>

\* The step is a turn of the listener of m that hands an ACK to _decode_message.
AckHandled(m) ==
    /\ Received(m)
    /\ Head(net[m]).pkl.obj.opc = "ACK"
    /\ Find(SRC_IP_ADD(m), Head(net[m]).frm) = -1
    /\ Head(net[m]).pkl.len <= RecvBuf

AllHeard ==
    \A m \in Members : \A n \in Members \ {m} : Find(SRC_IP_ADD(m), addr[n]) = -1

\* C13: when A and B have both set x, B with the greater timestamp, and every
\* record and datagram has been handled, every member holds the value B set.
LatestTimestampWins ==
    ( /\ ops = Len(RaceWriters)
      /\ LoadOf(Members) = 0
      /\ ~debug
      /\ AllHeard
      /\ \A m \in Members : held[m].kind = "reg" )
    => \A m \in Members : Has(RegCache(m), "x", RaceValues[Len(RaceValues)])

\* C14: when the listener has applied a PUT or UPD, the cache holds the key
\* with the value that message carried, so that a read returns the value of
\* the message applied last.
ReadsLastApplied ==
    (last.op = "recv" /\ last.opc \in {"PUT", "UPD"} /\ last.disp /\ last.raised = "")
    => Has(RegCache(last.m), last.key, last.val)

\* The redundancy schedule: datagrams per fragment for the posture.
ScheduledCopies ==
    IF op_level = OPTIMISTIC THEN 2 ELSE IF op_level = NEUTRAL THEN 3 ELSE 4

\* C15: _send_fragment makes 2, 3 or 4 sendto calls under the optimistic,
\* neutral or pessimistic posture, and every record the multicaster transmits
\* reaches the socket of every member as that many copies of one datagram.
RedundancyByPosture ==
    [][\A m \in Members :
          (mcQueue[m] # <<>> /\ mcQueue'[m] = Tail(mcQueue[m]))
          => /\ Copies = ScheduledCopies
             /\ last'.disp =>
                   \A r \in Members :
                      /\ Len(net'[r]) = Len(net[r]) + ScheduledCopies
                      /\ \A i \in (Len(net[r]) + 1)..Len(net'[r]) :
                            /\ net'[r][i].frm = addr[m]
                            /\ net'[r][i].pkl = PickleDumps(WireMsg(Head(mcQueue[m])))
             /\ ~last'.disp => net' = net]_vars

\* C15, the case: the multicaster has transmitted a record under the neutral
\* posture and three copies of it are the last datagrams in every socket.
ThreeCopiesSent ==
    /\ op_level = NEUTRAL
    /\ last.op = "send"
    /\ last.disp
    /\ \A r \in Members :
          /\ Len(net[r]) >= 3
          /\ net[r][Len(net[r])] = net[r][Len(net[r]) - 2]

\* The step is a turn of the listener of m that hands a message with opcode
\* opc to _decode_message.
Handled(m, opc) ==
    /\ Received(m)
    /\ Head(net[m]).pkl.obj.opc = opc
    /\ Find(SRC_IP_ADD(m), Head(net[m]).frm) = -1
    /\ Head(net[m]).pkl.len <= RecvBuf

\* C16: when the listener handles a DEL for a key its cache does not hold, no
\* exception is raised, the caches of the member are as before, and the only
\* record enqueued is the ACK with the namespace, key and timestamp of the DEL.
AbsentDelAcked ==
    [][\A m \in Members :
          (Handled(m, "DEL") /\ Head(net[m]).pkl.obj.key \notin DOMAIN RegCache(m).data)
          => /\ last'.raised = ""
             /\ mcCacheDict'[m] = mcCacheDict[m]
             /\ mcQueue'[m] =
                   Append(mcQueue[m],
                          QRec("ACK", Head(net[m]).pkl.obj.tsm, Head(net[m]).pkl.obj.nms,
                               Head(net[m]).pkl.obj.key, None))]_vars

\* C16, the case: B has handled a DEL that is the first message it ever took
\* from its sender (so its cache never held the key) and has enqueued the ACK.
FirstMessageWasDel ==
    /\ last.op = "recv"
    /\ last.m = "B"
    /\ last.opc = "DEL"
    /\ last.disp
    /\ mcQueue["B"] # <<>>
    /\ mcQueue["B"][Len(mcQueue["B"])].opc = "ACK"
    /\ last.frm \in DOMAIN mcMember["B"]
    /\ mcQueue["B"][Len(mcQueue["B"])].tsm = mcMember["B"][last.frm]
    /\ DOMAIN RegCache("B").data = {}

\* The last step was the listener of m applying, without an exception, the
\* very message that now heads the socket of m.
SameAsLastApplied(m) ==
    /\ last.op = "recv"
    /\ last.m = m
    /\ last.disp
    /\ last.raised = ""
    /\ last.opc = Head(net[m]).pkl.obj.opc
    /\ last.key = Head(net[m]).pkl.obj.key
    /\ last.val = Head(net[m]).pkl.obj.val
    /\ last.frm = Head(net[m]).frm

\* C17: when the listener applies a PUT (or UPD) that it has just applied, the
\* caches of the member, with their keys, values, currsize and eviction order,
\* are the same after the second application as after the first.
PutTwiceAsOnce ==
    [][\A m \in Members :
          ((Handled(m, "PUT") \/ Handled(m, "UPD")) /\ SameAsLastApplied(m))
          => /\ last'.raised = ""
             /\ mcCacheDict'[m] = mcCacheDict[m]]_vars

\* C17, the case: B has applied two copies of one PUT (its queue ends with the
\* two ACKs of one key and one timestamp) and holds the key.
PutAppliedTwice ==
    /\ last.op = "recv"
    /\ last.m = "B"
    /\ last.opc = "PUT"
    /\ last.disp
    /\ last.raised = ""
    /\ last.key \in DOMAIN RegCache("B").data
    /\ Len(mcQueue["B"]) >= 2
    /\ mcQueue["B"][Len(mcQueue["B"])].opc = "ACK"
    /\ mcQueue["B"][Len(mcQueue["B"])].key = last.key
    /\ mcQueue["B"][Len(mcQueue["B"]) - 1] = mcQueue["B"][Len(mcQueue["B"])]

\* C18: the cache the application of a member got from get_cache() is the
\* instance the registry holds under that name, which every other call of
\* get_cache for the name (that of _decode_message on the listener thread
\* included) returns.  In EvictionSpec no application makes a cache of its own.
OneInstancePerName ==
    \A m \in Members : held[m] = RegHandle("default")

\* C19: a cache get_cache has made and registered under "default" is a TLRU
\* cache when the posture is pessimistic and an LRU cache otherwise.
DefaultKindByPosture ==
    \A m \in Members :
        mcCacheDict[m]["default"] # <<>>
        => RegCache(m).kind = (IF op_level = PESSIMISTIC THEN "TLRU" ELSE "LRU")

(* ------------------------------------------------------------------ *)
(* Supplying a cache: the applications construct a cache of their own   *)
(* before the first call of get_cache                                   *)
(* ------------------------------------------------------------------ *)

\* The state when every member has imported the module (_mcCacheDict = {})
\* and its application has constructed LRUCache(maxsize, getsizeof).
RegistryInit ==
    /\ op_level \in Levels
    /\ max_size \in MaxSizeChoices
    /\ addr \in AddrChoices
    /\ debug \in BOOLEAN
    /\ mcCacheDict = [m \in Members |-> [n \in Names |-> <<>>]]
    /\ \E maxsize \in OwnMaxSizes :
           held = [m \in Members |-> OwnHandle(NewLRUCache(maxsize, TRUE))]
    /\ mcQueue = [m \in Members |-> <<>>]
    /\ mcMember = [m \in Members |-> EmptyMap]
    /\ mcPending = [m \in Members |-> EmptyMap]
    /\ net = [m \in Members |-> <<>>]
    /\ clock = 1
    /\ ops = 0
    /\ exited = [m \in Members |-> FALSE]
    /\ pc = [m \in Members |-> Idle]
    /\ last = Step("init", None, None, None, None, FALSE, "", <<>>, <<>>, FALSE)

RegistryNext ==
    \/ \E m \in Members, supply \in BOOLEAN : GetCache(m, supply)
    \/ \E m \in Members, key \in Keys, multicast \in BOOLEAN :
           LocalSet(m, key, "42", multicast)
    \/ \E m \in Members : Multicaster(m)
    \/ \E m \in Members : Listener(m)

RegistrySpec == RegistryInit /\ [][RegistryNext]_vars

\* The step is the application of m calling get_cache(cache=its own cache)
\* while nothing is registered under "default".
SuppliesUnregistered(m) ==
    /\ mcCacheDict[m]["default"] = <<>>
    /\ held[m].kind = "own"
    /\ ops' = ops + 1
    /\ last'.op = "get_cache"
    /\ last'.m = m
    /\ last'.prop

\* C20: when the application supplies its own cache, empty or not, to
\* get_cache for a name nothing is registered under, the call registers that
\* very cache under the name and the application goes on holding it, now as
\* the registered cache.
SuppliedIsRegistered ==
    [][\A m \in Members :
          SuppliesUnregistered(m)
          => /\ mcCacheDict'[m]["default"] = held[m].c
             /\ held'[m] = RegHandle("default")]_vars

\* The step is the application of m calling get_cache.
CallsGetCache(m) ==
    /\ ops' = ops + 1
    /\ last'.op = "get_cache"
    /\ last'.m = m

\* C21: a get_cache call that registers a cache under "default", where none
\* was registered, puts exactly one INI record for that name on the queue, and
\* a get_cache call for a name already registered puts nothing there.
OneIniOnCreation ==
    [][\A m \in Members :
          CallsGetCache(m)
          => IF mcCacheDict[m]["default"] = <<>> /\ mcCacheDict'[m]["default"] # <<>>
             THEN /\ Len(mcQueue'[m]) = Len(mcQueue[m]) + 1
                  /\ SubSeq(mcQueue'[m], 1, Len(mcQueue[m])) = mcQueue[m]
                  /\ mcQueue'[m][Len(mcQueue'[m])].opc = "INI"
                  /\ mcQueue'[m][Len(mcQueue'[m])].nms = "default"
             ELSE mcQueue'[m] = mcQueue[m]]_vars

\* C22: a datagram whose first byte is not the magic byte 246 changes no
\* cache of the member whose listener takes it.
BadMagicNeverApplied ==
    [][\A m \in Members :
          (Received(m) /\ WireMagic(Head(net[m]).pkl) # MAGIC_BYTE)
          => /\ mcCacheDict'[m] = mcCacheDict[m]
             /\ held'[m] = held[m]]_vars

\* _make_pending_value(bdata, _config.mtu, members) returns, and returns
\* ceil(len(bdata) / (mtu - 4)) fragments.
FragmentedRight(bdata, members) ==
    /\ MakePendingValue(bdata, Mtu, members).raised = ""
    /\ Len(MakePendingValue(bdata, Mtu, members).value)
          = (bdata.len + (Mtu - 4) - 1) \div (Mtu - 4)

\* C23: the pickle of the record at the head of every outbound queue is cut by
\* _make_pending_value into ceil(L / (MTU - 4)) fragments.
FragmentsAsSpecified ==
    \A m \in Members :
        mcQueue[m] # <<>>
        => FragmentedRight(PickleDumps(WireMsg(Head(mcQueue[m]))), mcMember[m])

\* C24: every datagram on the wire is at most _config.mtu bytes long.
DatagramWithinMtu ==
    \A m \in Members : \A i \in 1..Len(net[m]) : net[m][i].pkl.len <= Mtu

\* The step is a turn of the listener of m on a datagram of a peer that
\* recvfrom(4096) cut short, so that pickle.loads raises.
TakesUndecodable(m) ==
    /\ Received(m)
    /\ Find(SRC_IP_ADD(m), Head(net[m]).frm) = -1
    /\ Head(net[m]).pkl.len > RecvBuf

UpdOnlyWhereHeld ==
    [][\A m \in Members :
          (op_level = NEUTRAL /\ Handled(m, "UPD")
             /\ Head(net[m]).pkl.obj.key \notin DOMAIN RegCache(m).data)
          => Head(net[m]).pkl.obj.key \notin DOMAIN mcCacheDict'[m]["default"][1].data]_vars

\* The step is a turn of the multicaster of m.
Dequeues(m) == mcQueue[m] # <<>> /\ mcQueue'[m] = Tail(mcQueue[m])

\* The key of the pending entry of a queue record.
PendingKeyOfRec(rec) == <<rec.nms, rec.key, rec.tsm>>

\* The multicaster of m has installed the pending entry of rec, addressed to
\* the members its table held.
InstalledFor(m, rec) ==
    /\ PendingKeyOfRec(rec) \in DOMAIN mcPending'[m]
    /\ DOMAIN mcPending'[m][PendingKeyOfRec(rec)].members = DOMAIN mcMember[m]

\* C27: a turn of the multicaster installs the pending entry of the record it
\* dequeued, keyed (namespace, key, timestamp) and addressed to the members of
\* the table at that moment, when the posture is pessimistic and the record is
\* no ACK, and leaves the pending table as it is otherwise; and under the
\* neutral and the optimistic posture the pending table is always empty.
PendingIffPessimistic ==
    /\ [][\A m \in Members :
            Dequeues(m)
            => IF op_level = PESSIMISTIC /\ Head(mcQueue[m]).opc # "ACK"
               THEN InstalledFor(m, Head(mcQueue[m]))
               ELSE mcPending'[m] = mcPending[m]]_vars
    /\ [](op_level # PESSIMISTIC => \A m \in Members : mcPending[m] = EmptyMap)

\* The datagrams one transmission of the record rec by m puts on the wire.
Transmitted(m, rec) == Repeat([frm |-> addr[m], pkl |-> PickleDumps(WireMsg(rec))], Copies)

\* In every socket the mutation records (all but the ACKs) of one sender are
\* in the order of their timestamps, the order in which they were enqueued.
InMutationOrder ==
    \A r \in Members : \A i, j \in 1..Len(net[r]) :
        (i < j /\ net[r][i].frm = net[r][j].frm
           /\ net[r][i].pkl.obj.opc # "ACK" /\ net[r][j].pkl.obj.opc # "ACK")
        => net[r][i].pkl.obj.tsm <= net[r][j].pkl.obj.tsm

\* C29: records are put at the back of the outbound queue, the multicaster
\* takes the record at the front and it is that record it transmits, so the
\* mutation records of a member reach every socket in mutation order.
FifoTransmission ==
    /\ [][\A m \in Members :
            IF Len(mcQueue'[m]) < Len(mcQueue[m])
            THEN /\ mcQueue'[m] = Tail(mcQueue[m])
                 /\ last'.disp =>
                       \A r \in Members :
                          net'[r] = net[r] \o Transmitted(m, Head(mcQueue[m]))
            ELSE SubSeq(mcQueue'[m], 1, Len(mcQueue[m])) = mcQueue[m]]_vars
    /\ []InMutationOrder

\* C29, the case: two records of successive mutations of A (an eviction and
\* the set that caused it) are in the socket of B, the earlier one first.
TwoMutationsInOrder ==
    \E i, j \in 1..Len(net["B"]) :
        /\ i < j
        /\ net["B"][i].frm = addr["A"]
        /\ net["B"][j].frm = addr["A"]
        /\ net["B"][i].pkl.obj.opc = "DEL"
        /\ net["B"][j].pkl.obj.opc \in {"PUT", "UPD"}
        /\ net["B"][i].pkl.obj.tsm < net["B"][j].pkl.obj.tsm

\* C30: after a local del or pop of a key that was present, with propagation,
\* the cache no longer holds the key and the call has enqueued exactly one
\* record: a DEL for the name of the cache and the key, carrying no value;
\* in every posture.
DelEnqueuesOneDel ==
    (last.op \in {"del", "pop"} /\ last.prop /\ last.raised = "")
    => /\ last.key \notin DOMAIN HeldCache(last.m).data
       /\ Len(last.out) = 1
       /\ last.out[1].opc = "DEL"
       /\ last.out[1].nms = HeldCache(last.m).name
       /\ last.out[1].key = last.key
       /\ last.out[1].val = None

\* C30, the case: under the optimistic posture a pop has removed a key that
\* held a value and has enqueued its record.
PopPropagated ==
    /\ op_level = OPTIMISTIC
    /\ last.op = "pop"
    /\ last.raised = ""
    /\ last.out # <<>>
    /\ mcQueue[last.m] # <<>>
    /\ mcQueue[last.m][Len(mcQueue[last.m])] = last.out[1]

(* ------------------------------------------------------------------ *)
(* The shared tables: the multicaster and the listener of A, which runs *)
(* the pessimistic posture, statement by statement, on the datagrams of *)
(* a peer that runs the neutral posture                                 *)
(* ------------------------------------------------------------------ *)

\* Number of datagrams of the peer in the socket of A at the start.
MaxInbound == 2

\* The message a member under the neutral posture sends.
PeerMsg(opc, tsm, nms, key, val) ==
    [opc |-> opc, tsm |-> tsm, nms |-> nms, key |-> key,
     crc |-> IF val # None THEN Crc(val) ELSE None, val |-> val]

PeerDatagrams ==
    {[frm |-> addr["B"], pkl |-> PickleDumps(msg)] :
        msg \in {PeerMsg("UPD", 1, "default", "x", "42"),
                 PeerMsg("DEL", 2, "default", "x", None),
                 PeerMsg("BYE", 3, None, None, None)}}

InboundBursts == UNION {[1..n -> PeerDatagrams] : n \in 1..MaxInbound}

TableInit ==
    /\ op_level = PESSIMISTIC
    /\ max_size \in MaxSizeChoices
    /\ addr \in AddrChoices
    /\ debug \in BOOLEAN
    /\ mcCacheDict = [m \in Members |-> get_cache([n \in Names |-> <<>>], None, <<>>).dict]
    /\ held = [m \in Members |-> RegHandle("default")]
    /\ mcQueue = [m \in Members |-> <<>>]
    /\ mcMember = [m \in Members |-> EmptyMap]
    /\ mcPending = [m \in Members |-> EmptyMap]
    /\ \E b \in InboundBursts :
          net = [m \in Members |-> IF m = "A" THEN b ELSE <<>>]
    /\ clock = 4
    /\ ops = 0
    /\ exited = [m \in Members |-> FALSE]
    /\ pc = [m \in Members |-> Idle]
    /\ last = Step("init", None, None, None, None, FALSE, "", <<>>, <<>>, FALSE)

\* default[key] = "42" at A, whatever its workers are doing.
TableSet(key) ==
    /\ ops < MaxOps
    /\ Commit("A", LRUSetItem(HeldCache("A"), key, "42", TRUE, clock), "set", key, "42", TRUE)

\* _multicaster from _mcQueue.get() to the test of _mcPending: a record that
\* needs no pending entry is sent at once.
McTakeRec(m, rec) ==
    /\ mcQueue' = [mcQueue EXCEPT ![m] = QueueGet(@).rest]
    /\ IF Tracks(m, rec)
       THEN /\ pc' = [pc EXCEPT ![m].mc = <<rec>>]
            /\ last' = Step("take", m, rec.opc, rec.key, rec.val, FALSE, "", <<>>, <<>>, FALSE)
            /\ UNCHANGED net
       ELSE /\ net' = [r \in Members |->
                         net[r] \o SendFragment(addr[m], PickleDumps(WireMsg(rec)))]
            /\ last' = Step("send", m, rec.opc, rec.key, rec.val, FALSE, "", <<>>, <<>>, TRUE)
            /\ UNCHANGED pc
    /\ UNCHANGED << config, mcCacheDict, held, mcMember, mcPending, clock, ops, exited >>

McTake(m) ==
    /\ pc[m].mc = <<>>
    /\ mcQueue[m] # <<>>
    /\ McTakeRec(m, QueueGet(mcQueue[m]).item)

\* _multicaster from the call of _make_pending_value, which returned or
\* raised pv, to the end of the turn.
McInstallWith(m, rec, pkl, pv) ==
    /\ pc' = [pc EXCEPT ![m].mc = <<>>]
    /\ mcPending' = IF pv.raised # "" THEN mcPending
                    ELSE [mcPending EXCEPT ![m] =
                            PutKey(@, <<rec.nms, rec.key, rec.tsm>>,
                                   [value |-> pv.value, members |-> pv.members])]
    /\ net' = IF pv.raised # "" THEN net
              ELSE [r \in Members |-> net[r] \o SendFragment(addr[m], pkl)]
    /\ last' = Step("send", m, rec.opc, rec.key, rec.val, FALSE, pv.raised, <<>>, <<>>,
                    pv.raised = "")
    /\ UNCHANGED << config, mcCacheDict, held, mcQueue, mcMember, clock, ops, exited >>

McInstallRec(m, rec, pkl) ==
    McInstallWith(m, rec, pkl, MakePendingValue(pkl, Mtu, mcMember[m]))

McInstall(m) ==
    /\ pc[m].mc # <<>>
    /\ McInstallRec(m, pc[m].mc[1], PickleDumps(WireMsg(pc[m].mc[1])))

\* _listener from recvfrom to the test `frm not in _mcMember`.
LsTakeDatagram(m, d) ==
    /\ net' = [net EXCEPT ![m] = Tail(@)]
    /\ IF Find(SRC_IP_ADD(m), d.frm) # -1
       THEN ListenerDrop(m, d.pkl.obj, d.frm, "") /\ UNCHANGED pc
       ELSE IF d.pkl.len > RecvBuf
       THEN ListenerDrop(m, d.pkl.obj, d.frm, "UnpicklingError") /\ UNCHANGED pc
       ELSE /\ pc' = [pc EXCEPT ![m].ls = <<d>>]
            /\ last' = Step("take", m, d.pkl.obj.opc, d.pkl.obj.key, d.pkl.obj.val, FALSE,
                            "", <<>>, d.frm, FALSE)
            /\ UNCHANGED << mcCacheDict, held, mcQueue, mcMember, mcPending, clock >>
    /\ UNCHANGED << config, ops, exited >>

LsTake(m) ==
    /\ pc[m].ls = <<>>
    /\ net[m] # <<>>
    /\ LsTakeDatagram(m, Head(net[m]))

\* _listener from `_mcMember[frm] = tsm` to the return of _decode_message.
LsApplyDatagram(m, d) ==
    /\ pc' = [pc EXCEPT ![m].ls = <<>>]
    /\ ListenerDispatch(m, d.pkl.obj, d.frm,
          DecodeMessage(m, Logged(d.pkl.obj), d.frm,
              IF d.frm \notin DOMAIN mcMember[m]
              THEN PutKey(mcMember[m], d.frm, d.pkl.obj.tsm) ELSE mcMember[m]))
    /\ UNCHANGED << config, net, ops, exited >>

LsApply(m) ==
    /\ pc[m].ls # <<>>
    /\ LsApplyDatagram(m, pc[m].ls[1])

TableNext ==
    \/ \E key \in Keys : TableSet(key)
    \/ McTake("A")
    \/ McInstall("A")
    \/ LsTake("A")
    \/ LsApply("A")

TableSpec == TableInit /\ [][TableNext]_vars

\* C28: the multicaster of a member is never between its test of _mcPending
\* and the end of its turn (where it reads _mcMember and installs the entry)
\* while the listener of that member is between its test of _mcMember and the
\* return of _decode_message (where it adds or removes a member or retires an
\* entry).
TablesSerialised ==
    \A m \in Members : pc[m].mc = <<>> \/ pc[m].ls = <<>>

(* ------------------------------------------------------------------ *)
(* Capacity evictions and what the peers see of them                   *)
(* ------------------------------------------------------------------ *)

\* The cache the application of m holds, in the next state.
HeldAfter(m) ==
    IF held'[m].kind = "reg" THEN mcCacheDict'[m][held'[m].nm][1] ELSE held'[m].c[1]

\* The step is a set of the application of m that propagates and returns.
SetsPropagating(m) ==
    /\ ops' = ops + 1
    /\ last'.op = "set"
    /\ last'.m = m
    /\ last'.prop
    /\ last'.raised = ""

\* The keys the cache of m held before the step and does not hold after it.
EvictedBy(m) == DOMAIN HeldCache(m).data \ DOMAIN HeldAfter(m).data

\* C31: a propagating local set that evicts appends to the outbound queue one
\* valueless DEL record for each evicted key and then, last, the record of the
\* set itself; and when the listener of a peer has handled a DEL, the cache
\* of that peer registered under the name no longer holds the key.
EvictionDelsBeforeSet ==
    [][\A m \in Members :
          /\ SetsPropagating(m) =>
                /\ mcQueue'[m] = mcQueue[m] \o last'.out
                /\ Len(last'.out) >= Cardinality(EvictedBy(m)) + 1
                /\ last'.out[Len(last'.out)].key = last'.key
                /\ last'.out[Len(last'.out)].opc \in {"PUT", "UPD", "DEL"}
                /\ \A k \in EvictedBy(m) :
                      \E i \in 1..(Len(last'.out) - 1) : last'.out[i].key = k
                /\ \A i \in 1..(Len(last'.out) - 1) :
                      /\ last'.out[i].opc = "DEL"
                      /\ last'.out[i].val = None
                      /\ last'.out[i].nms = HeldCache(m).name
                      /\ last'.out[i].key \in DOMAIN HeldCache(m).data
                      /\ last'.out[i].key \in EvictedBy(m) \cup {last'.key}
                      /\ last'.out[i].tsm < last'.out[Len(last'.out)].tsm
          /\ Handled(m, "DEL") =>
                /\ mcCacheDict'[m][Head(net[m]).pkl.obj.nms] # <<>>
                /\ Head(net[m]).pkl.obj.key
                      \notin DOMAIN mcCacheDict'[m][Head(net[m]).pkl.obj.nms][1].data]_vars

\* C31, the case: the fourth set of A has evicted a, the listener of B has
\* just handled the DEL of a, B no longer holds a, and the record of the set
\* that made the eviction is still to come in the socket of B.
EvictedAtPeer ==
    /\ ops = Len(EvictionKeys)
    /\ DOMAIN HeldCache("A").data = {"b", "c", "d"}
    /\ last.op = "recv" /\ last.m = "B" /\ last.disp
    /\ last.opc = "DEL" /\ last.key = "a" /\ last.frm = addr["A"]
    /\ DOMAIN RegCache("B").data = {"b", "c"}
    /\ \E i \in 1..Len(net["B"]) :
          /\ net["B"][i].frm = addr["A"]
          /\ net["B"][i].pkl.obj.opc \in {"PUT", "UPD"}
          /\ net["B"][i].pkl.obj.key = "d"

(* ------------------------------------------------------------------ *)
(* What a received message makes the receiver enqueue                  *)
(* ------------------------------------------------------------------ *)

\* The records the step appended to the outbound queue of m.
Enqueued(m) == SubSeq(mcQueue'[m], Len(mcQueue[m]) + 1, Len(mcQueue'[m]))

\* C32: a turn of the listener appends at most one record to the outbound
\* queue of the receiver, that record is an ACK, and a turn on an ACK appends
\* none.
AtMostOneAckPerReceipt ==
    [][\A m \in Members :
          Received(m) =>
             /\ SubSeq(mcQueue'[m], 1, Len(mcQueue[m])) = mcQueue[m]
             /\ Len(Enqueued(m)) <= 1
             /\ \A i \in 1..Len(Enqueued(m)) : Enqueued(m)[i].opc = "ACK"
             /\ Head(net[m]).pkl.obj.opc = "ACK" => Enqueued(m) = <<>>]_vars

(* ------------------------------------------------------------------ *)
(* Pending entry and transmission of one operation                     *)
(* ------------------------------------------------------------------ *)

\* The datagrams of the record rec of m that are in the socket of r.
InFlight(m, r, rec) ==
    {i \in 1..Len(net[r]) :
        /\ net[r][i].frm = addr[m]
        /\ net[r][i].pkl.obj.opc = rec.opc
        /\ PendingKeyOfRec(net[r][i].pkl.obj) = PendingKeyOfRec(rec)}

Unacknowledged(m, k) == DOMAIN mcPending[m][k].members

CacheSetPrepare(c, key, size, t) ==
    IF size > c.maxsize THEN Res(c, <<>>, "ValueError", t)
    ELSE IF key \notin DOMAIN c.data \/ SizeOf(c, key) < size
    THEN EvictLoop(c, size, <<>>, t)
    ELSE Res(c, <<>>, "", t)

\* The cache object the application of m holds becomes c.
StoreHeld(m, c) ==
    IF held[m].kind = "reg"
    THEN /\ mcCacheDict' = [mcCacheDict EXCEPT ![m][held[m].nm] = <<c>>]
         /\ UNCHANGED held
    ELSE /\ held' = [held EXCEPT ![m].c = <<c>>]
         /\ UNCHANGED mcCacheDict

\* The application is in cache.__setitem__(key, value, multicast), which has
\* run up to the assignment of diffsize and returned or raised r so far.
AppSetPrepared(m, key, value, multicast, size, r) ==
    /\ StoreHeld(m, r.c)
    /\ mcQueue' = [mcQueue EXCEPT ![m] = @ \o r.out]
    /\ clock' = r.t
    /\ IF r.raised # ""
       THEN /\ ops' = ops + 1
            /\ last' = Step("set", m, None, key, value, multicast, r.raised, r.out, <<>>, FALSE)
            /\ UNCHANGED pc
       ELSE /\ pc' = [pc EXCEPT ![m].ap =
                        <<[key |-> key, value |-> value, multicast |-> multicast,
                           size |-> size, diffsize |-> DiffSize(r.c, key, size)]>>]
            /\ last' = Step("enter", m, None, key, value, multicast, "", r.out, <<>>, FALSE)
            /\ UNCHANGED ops
    /\ UNCHANGED << config, mcMember, mcPending, net, exited >>

\* cache.__setitem__(key, value, multicast), lines 154-164.
AppSetBegin(m, key, value, multicast) ==
    /\ m \in Writers
    /\ ~exited[m]
    /\ ops < MaxOps
    /\ pc[m].ap = <<>>
    /\ AppSetPrepared(m, key, value, multicast, GetSizeOf(HeldCache(m), value),
          CacheSetPrepare(HeldCache(m), key, GetSizeOf(HeldCache(m), value), clock))

\* The rest of the method has returned r.
AppSetDone(m, loc, r) ==
    /\ StoreHeld(m, r.c)
    /\ mcQueue' = [mcQueue EXCEPT ![m] = @ \o r.out]
    /\ clock' = r.t
    /\ ops' = ops + 1
    /\ pc' = [pc EXCEPT ![m].ap = <<>>]
    /\ last' = Step("set", m, None, loc.key, loc.value, loc.multicast, r.raised, r.out,
                    <<>>, FALSE)
    /\ UNCHANGED << config, mcMember, mcPending, net, exited >>

\* cache.__setitem__, lines 165-176, and LRUCache.__setitem__, self.__update(key).
AppSetEndWith(m, loc) ==
    AppSetDone(m, loc,
        LRUSetItemOrder(
            CacheSetWrite(HeldCache(m), <<>>, clock, loc.key, loc.value, loc.size,
                          loc.diffsize, loc.multicast),
            loc.key))

AppSetEnd(m) ==
    /\ pc[m].ap # <<>>
    /\ AppSetEndWith(m, pc[m].ap[1])

SharedNext ==
    \/ \E m \in Members, key \in Keys : AppSetBegin(m, key, "42", TRUE)
    \/ \E m \in Members : AppSetEnd(m)
    \/ \E m \in Members : Multicaster(m)
    \/ \E m \in Members : Listener(m)

\* The start is that of the shared tables: A runs the pessimistic posture and
\* the datagrams of the peer wait in its socket.
SharedSpec == TableInit /\ [][SharedNext]_vars

RECURSIVE SumOfSizes(_, _)
\* The summed size of the entries of c with a key in S.
SumOfSizes(c, S) ==
    IF S = {} THEN 0
    ELSE LET k == CHOOSE x \in S : TRUE
         IN  SizeOf(c, k) + SumOfSizes(c, S \ {k})

\* currsize, the stored entries and the LRU order of c agree.
Coherent(c) ==
    /\ c.currsize = SumOfSizes(c, DOMAIN c.data)
    /\ c.currsize <= c.maxsize
    /\ {c.order[i] : i \in 1..Len(c.order)} = DOMAIN c.data
    /\ Len(c.order) = Cardinality(DOMAIN c.data)

\* C35: whenever the application of a member is in no cache method, the
\* registered cache it shares with its listener is coherent: currsize is the
\* summed size of the stored entries and at most maxsize, and the LRU order
\* lists exactly the stored keys; however the method of the application and
\* the turns of the listener on that cache were interleaved.
SharedCacheCoherent ==
    \A m \in Members :
        (pc[m].ap = <<>> /\ held[m].kind = "reg") => Coherent(HeldCache(m))

====
